---- MODULE Spec2Model ----
(***************************************************************************)
(* Model of the DL24P device session controller (dl24_webserver.py):       *)
(* the connection health monitor, the device polling loop, the test        *)
(* monitor, the stop procedure and the request handlers.                   *)
(*                                                                         *)
(* Units: voltages are counted in tenths of a volt, poll intervals in      *)
(* half seconds (every interval the code can produce is 2.0 + k * 0.5),    *)
(* clock values in whole seconds.                                          *)
(***************************************************************************)
EXTENDS Integers, Sequences, FiniteSets, TLC

\* ------------------------------------------------------------------ bounds
MaxNow == 165           \* the clock stops advancing here ...
MaxNowSpec == 116       \* ... and here in the specifications of whole sessions
MaxFailures == 7        \* consecutive_failures is not driven past this
MaxLog == 2             \* data_points is not driven past this length
MaxLinkInterval == 10   \* update_interval at which that specification stops failing polls
MaxNowLink == 132       \* ... and here beside the polling loop's reconnects
TickSmall == 15         \* the clock advances by one of two amounts
TickLarge == 16
Epoch == 100            \* the clock at start-up: above every timeout of the program
MaxRuns == 2            \* calls of run_cycle
MaxStops == 1           \* calls of stop() by another thread
MaxExports == 2         \* calls of export_data
RestDuration == 2       \* the loaded cycles: a rest of 1 s,
PulseDuration == 2      \* a discharge of 1 s,
DrainMaxTime == 2       \* a discharge to the cutoff of at most 1 s,
RampSteps == 2          \* a ramp of two steps
RampStepDuration == 1   \* of 0.5 s each

\* ------------------------------------------------------- program constants
None == -1              \* Python None for start_time
MAX_CONSECUTIVE_FAILURES == 5
DISCONNECT_FAILURES == 3
MIN_RESET_INTERVAL == 30
IntervalInit == 4       \* 2.0 s
IntervalFloor == 6      \* 3.0 s
IntervalMax == 20       \* 10.0 s
IntervalStep == 1       \* 0.5 s
HEARTBEAT_TIMEOUT == 15
ValidFloor == 10        \* 1.0 V
NoLimit == 1000         \* float('inf') as max_time

\* ------------------------------------------------------------------ threads
Poller == "poll"
Harness == "hm"
Reqs == {"r1", "r2"}
Mons == {"m1", "m2"}
Threads == {Poller, Harness} \cup Reqs \cup Mons

Min(a, b) == IF a < b THEN a ELSE b
Max(a, b) == IF a > b THEN a ELSE b

VARIABLES
    now,                \* time.time()
    link,               \* instrument handle: "none" | "open" | "closed"
    out,                \* the instrument's output flag, 0 or 1
    lock,               \* serial_lock: "free" or the thread holding it
    running,            \* test_state['running']
    start_time,         \* test_state['start_time'] (None, or the time it was set)
    data_points,        \* test_state['data_points'] (a token for each point)
    cur_voltage,        \* test_state['current_data']['voltage']
    connection_health,  \* the connection_health dictionary
    last_heartbeat,     \* last_heartbeat
    pc,                 \* each thread's position
    ret,                \* where manage_connection_health returns to
    issued,             \* instrument commands attempted by the thread's current operation
    si_handle,          \* stop_test_internal: what its handle test found
    load_on,            \* update_data: load_on of this iteration
    has_comm_errors,    \* update_data: has_comm_errors of this iteration
    poll_v,             \* update_data: voltage of this iteration
    mon,                \* per monitor: cutoff_voltage, max_time, start_time
    req,                \* per request thread: the parameters of its startTest
    result,             \* per request thread: the response returned
    status,             \* the body of the last response of get_status
    prev_start,         \* history: when the latest forced reconnect began (None: never)
    xclock,             \* test_cycle_executor: time.time(), in half seconds
    self_running,       \* TestCycleExecutor.running
    current_cycle,      \* TestCycleExecutor.current_cycle (its name, or "none")
    current_phase,      \* TestCycleExecutor.current_phase
    phase_start_time,   \* TestCycleExecutor.phase_start_time
    cycle_data,         \* TestCycleExecutor.cycle_data: phase and phase_type of each point
    xpc,                \* position of the thread that calls run_cycle
    xloc,               \* its locals: phase index, ramp step, start_time, last_log, and
                        \* how many commands and points there were when the phase began
    xissued,            \* setting commands it issued to the instrument in this call
    xphases,            \* names of the phases it started in this call
    xresult,            \* what its run_cycle returned or raised
    spc,                \* position of the thread that calls stop()
    last_output,        \* the last output command the instrument was sent
    calls,              \* how many calls of run_cycle, stop() and export_data were made
    files,              \* the files export_data wrote: name -> lines
    exported            \* what the last call of export_data returned

healthVars == <<connection_health, prev_start>>
sessionVars == <<running, start_time, data_points, cur_voltage, last_heartbeat>>
deviceVars == <<link, out, lock>>
pollVars == <<load_on, has_comm_errors, poll_v>>
monVars == <<mon>>
threadVars == <<pc, ret, issued, si_handle, req, result>>
exportVars == <<files, exported>>
execVars == <<exportVars, xclock, self_running, current_cycle, current_phase, phase_start_time,
              cycle_data, xpc, xloc, xissued, xphases, xresult, spc, last_output, calls>>
serverVars == <<now, healthVars, sessionVars, deviceVars, pollVars, monVars, threadVars, status>>
vars == <<serverVars, execVars>>

HandleExists == link # "none"

\* A monitor thread that is not alive. Of a live one: its arguments, its start
\* time, the voltage it sampled last (current_voltage), when it sampled it
\* (current_time) and why it called the stop procedure.
NoMon == [cutoff |-> 0, max_time |-> 0, start |-> 0, current_voltage |-> 0,
          current_time |-> 0, why |-> "none"]
NoReq == [cutoff |-> 0, max_time |-> 0]

\* No response of get_status yet.
NoStatus == [load_on |-> 0, limits |-> "none"]

\* TestCycleExecutor.__init__, lines 16-17: no phase yet; and the locals of a
\* thread that is not inside a phase.
NoPhase == [name |-> "none", type |-> "none"]
NoLocals == [i |-> 0, step |-> 0, start_time |-> 0, last_log |-> 0, base |-> 0, logbase |-> 0]

InitialPc(t) ==
    IF t = Poller THEN "p_sleep"
    ELSE IF t \in Mons THEN "m_off"
    ELSE "idle"

\* Module state at import (lines 28-66), then main(): init_device() either
\* connected (the load found off or on) or did not.
Init ==
    /\ now = Epoch
    /\ link \in {"none", "open"}
    /\ out \in {0, 1}
    /\ lock = "free"
    /\ status = NoStatus
    /\ running \in (IF link = "open" /\ out = 1 THEN {TRUE, FALSE} ELSE {FALSE})
    /\ start_time = IF running THEN now ELSE None
    /\ data_points = <<>>
    /\ cur_voltage = 0
    /\ connection_health =
         [consecutive_failures |-> 0,
          connection_reset_count |-> 0,
          last_reset_time |-> 0,
          update_interval |-> IntervalInit,
          is_connected |-> (link = "open")]
    /\ last_heartbeat = 0
    /\ pc = [t \in Threads |-> InitialPc(t)]
    /\ ret = "p_sleep"
    /\ issued = [t \in Threads |-> <<>>]
    /\ si_handle = [t \in Threads |-> "none"]
    /\ load_on = 0
    /\ has_comm_errors = FALSE
    /\ poll_v = 0
    /\ mon = [m \in Mons |-> NoMon]
    /\ req = [r \in Reqs |-> NoReq]
    /\ result = [r \in Reqs |-> "none"]
    /\ prev_start = None
    /\ xclock = 0
    /\ self_running = FALSE
    /\ current_cycle = "none"
    /\ current_phase = NoPhase
    /\ phase_start_time = None
    /\ cycle_data = <<>>
    /\ xpc = "x_idle"
    /\ xloc = NoLocals
    /\ xissued = <<>>
    /\ xphases = <<>>
    /\ xresult = "none"
    /\ spc = "s_idle"
    /\ last_output = "none"
    /\ calls = [run |-> 0, stop |-> 0, export |-> 0]
    /\ files = <<>>
    /\ exported = "none"

\* The clock.
Tick(d, limit) ==
    /\ now + d <= limit
    /\ now' = now + d
    /\ UNCHANGED <<healthVars, sessionVars, deviceVars, pollVars, monVars, threadVars,
                   status, execVars>>

\* ------------------------------------------------- connection health monitor

\* A success that drops the interval straight to its floor.
HealthOnSuccess_Jump(h) ==
    [h EXCEPT !.consecutive_failures = 0,
              !.is_connected = TRUE,
              !.update_interval = IF @ > IntervalFloor THEN IntervalFloor ELSE @]

\* manage_connection_health(True), lines 189-196.
HealthOnSuccess(h) ==
    [h EXCEPT !.consecutive_failures = 0,
              !.is_connected = TRUE,
              !.update_interval =
                  IF @ > IntervalFloor THEN Max(IntervalFloor, @ - IntervalStep) ELSE @]

\* A failure that forgets the ceiling.
HealthOnFailure_NoCeiling(h) ==
    [h EXCEPT !.consecutive_failures = @ + 1,
              !.update_interval = @ + IntervalStep,
              !.is_connected =
                  IF h.consecutive_failures + 1 >= DISCONNECT_FAILURES THEN FALSE ELSE @]

\* A failure that marks the link disconnected one failure late.
HealthOnFailure_LateFlag(h) ==
    [h EXCEPT !.consecutive_failures = @ + 1,
              !.update_interval = Min(IntervalMax, @ + IntervalStep),
              !.is_connected =
                  IF h.consecutive_failures + 1 > DISCONNECT_FAILURES THEN FALSE ELSE @]

\* manage_connection_health(False), lines 198-209: the counters.
HealthOnFailure(h) ==
    [h EXCEPT !.consecutive_failures = @ + 1,
              !.update_interval = Min(IntervalMax, @ + IntervalStep),
              !.is_connected =
                  IF h.consecutive_failures + 1 >= DISCONNECT_FAILURES THEN FALSE ELSE @]

\* A reset decision that ignores the cooldown.
ShouldReset_NoCooldown(h, t) ==
    h.consecutive_failures >= MAX_CONSECUTIVE_FAILURES

\* manage_connection_health(False), lines 212-213: whether to force a reconnect.
ShouldReset(h, t) ==
    /\ h.consecutive_failures >= MAX_CONSECUTIVE_FAILURES
    /\ t - h.last_reset_time > MIN_RESET_INTERVAL

\* An instrument call can succeed only on an open link; it may always fail.
CallOutcomes == IF link = "open" THEN {TRUE, FALSE} ELSE {FALSE}

\* Where reconnect_device returns to: into update_data through
\* manage_connection_health, or to api_reconnect's response.
RetOf(t) == IF t = Poller THEN ret ELSE IF t \in Reqs THEN "r_done" ELSE "idle"

\* api_reconnect's response, lines 541-550, when a handler thread ran the
\* reconnect.
Reconnected(t, ok) ==
    IF t \in Reqs THEN [result EXCEPT ![t] = IF ok THEN "ok" ELSE "DeviceError"]
    ELSE result

\* manage_connection_health, line 220, when it ran the reconnect.
ResetCounted(t) ==
    IF t \in Reqs THEN connection_health
    ELSE [connection_health EXCEPT !.connection_reset_count = @ + 1]

Note(t, c) == [issued EXCEPT ![t] = Append(@, c)]

\* manage_connection_health(False), lines 197-216, up to the call of
\* reconnect_device.
MCH_Fail(t) ==
    /\ pc[t] = "mch_fail"
    /\ LET h == HealthOnFailure(connection_health) IN
         IF ShouldReset(h, now)
         THEN /\ connection_health' = [h EXCEPT !.last_reset_time = now]
              /\ prev_start' = now
              /\ pc' = [pc EXCEPT ![t] = "rc_close"]
         ELSE /\ connection_health' = h
              /\ prev_start' = prev_start
              /\ pc' = [pc EXCEPT ![t] = RetOf(t)]
    /\ UNCHANGED <<execVars, status, now, sessionVars, deviceVars, pollVars, monVars,
                   ret, issued, si_handle, req, result>>

\* reconnect_device, lines 148-167: close the link, then look for the port.
RC_Close(t, port_found) ==
    /\ pc[t] = "rc_close"
    /\ link' = IF link = "none" THEN "none" ELSE "closed"
    /\ IF port_found
       THEN /\ pc' = [pc EXCEPT ![t] = "init_connect"]
            /\ UNCHANGED connection_health
       ELSE /\ pc' = [pc EXCEPT ![t] = RetOf(t)]
            /\ connection_health' = [connection_health EXCEPT !.is_connected = FALSE]
    /\ result' = IF port_found THEN result ELSE Reconnected(t, FALSE)
    /\ UNCHANGED <<execVars, status, now, prev_start, sessionVars, out, lock, pollVars, monVars,
                   ret, issued, si_handle, req>>

\* init_device, lines 72-99: open the port and connect.
InitConnect(t, ok, failed_link) ==
    /\ pc[t] = "init_connect"
    /\ IF ok
       THEN /\ link' = "open"
            /\ connection_health' = [connection_health EXCEPT
                    !.is_connected = TRUE, !.consecutive_failures = 0]
            /\ pc' = [pc EXCEPT ![t] = "init_detect"]
       ELSE /\ link' = failed_link
            /\ UNCHANGED connection_health
            /\ pc' = [pc EXCEPT ![t] = RetOf(t)]
    /\ result' = IF ok THEN result ELSE Reconnected(t, FALSE)
    /\ UNCHANGED <<execVars, status, now, prev_start, sessionVars, out, lock, pollVars, monVars,
                   ret, issued, si_handle, req>>

\* init_device, lines 114-133: read the device state (outside serial_lock) and
\* write the running flag.
InitDetect(t, ok) ==
    /\ pc[t] = "init_detect"
    /\ ok \in CallOutcomes
    /\ issued' = Note(t, "readstate")
    /\ IF ok /\ out = 1
       THEN /\ running' = TRUE
            /\ pc' = [pc EXCEPT ![t] = "init_on"]
       ELSE /\ running' = FALSE
            /\ pc' = [pc EXCEPT ![t] = "init_off"]
    /\ UNCHANGED <<execVars, status, now, healthVars, start_time, data_points, cur_voltage,
                   last_heartbeat, deviceVars, pollVars, monVars,
                   ret, si_handle, req, result>>

\* init_device, lines 122-123, then the return through reconnect_device
\* (line 172) to manage_connection_health (line 220).
InitOn(t) ==
    /\ pc[t] = "init_on"
    /\ start_time' = now
    /\ data_points' = <<>>
    /\ connection_health' = ResetCounted(t)
    /\ pc' = [pc EXCEPT ![t] = RetOf(t)]
    /\ result' = Reconnected(t, TRUE)
    /\ UNCHANGED <<execVars, status, now, prev_start, running, cur_voltage, last_heartbeat,
                   deviceVars, pollVars, monVars, ret, issued, si_handle, req>>

\* init_device, line 127 (or 133), then the same return.
InitOff(t) ==
    /\ pc[t] = "init_off"
    /\ start_time' = None
    /\ connection_health' = ResetCounted(t)
    /\ pc' = [pc EXCEPT ![t] = RetOf(t)]
    /\ result' = Reconnected(t, TRUE)
    /\ UNCHANGED <<execVars, status, now, prev_start, running, data_points, cur_voltage,
                   last_heartbeat, deviceVars, pollVars, monVars,
                   ret, issued, si_handle, req>>

\* reconnect_device as one thread runs it.
ReconnectDevice(t) ==
    \/ \E port_found \in BOOLEAN : RC_Close(t, port_found)
    \/ \E ok \in BOOLEAN, failed_link \in {"none", "closed"} :
           InitConnect(t, ok, failed_link)
    \/ \E ok \in BOOLEAN : InitDetect(t, ok)
    \/ InitOn(t)
    \/ InitOff(t)

\* The forced reconnect as one thread runs it.
Reconnect(t) ==
    \/ MCH_Fail(t)
    \/ ReconnectDevice(t)


\* ------------------------------------------------------- device polling loop

\* update_data, lines 232-234: the handle test and the entry of serial_lock.
PollBegin ==
    /\ pc[Poller] = "p_sleep"
    /\ HandleExists
    /\ lock = "free"
    /\ lock' = Poller
    /\ pc' = [pc EXCEPT ![Poller] = "p_recv"]
    /\ issued' = [issued EXCEPT ![Poller] = <<>>]
    /\ UNCHANGED <<execVars, status, now, healthVars, sessionVars, link, out, pollVars, monVars,
                   ret, si_handle, req, result>>

\* update_data, line 236: recvdata() inside serial_lock; an exception leaves
\* the lock and reaches the handler of lines 364-368. (may_fail: whether the
\* model lets this iteration fail, see MayFail.)
PollRecv(ok, may_fail) ==
    /\ pc[Poller] = "p_recv"
    /\ ok \in CallOutcomes
    /\ ok \/ may_fail
    /\ issued' = Note(Poller, "recvdata")
    /\ IF ok
       THEN /\ pc' = [pc EXCEPT ![Poller] = "p_read"]
            /\ UNCHANGED <<lock, ret>>
       ELSE /\ pc' = [pc EXCEPT ![Poller] = "mch_fail"]
            /\ lock' = "free"
            /\ ret' = "p_sleep"
    /\ UNCHANGED <<execVars, status, now, healthVars, sessionVars, link, out, pollVars, monVars,
                   si_handle, req, result>>

\* update_data, lines 239-240 and 264-274: cmd_readstate() inside serial_lock,
\* then the classification of the response; a response with a failure marker
\* calls manage_connection_health(False).
PollRead(ok, v, marker, may_fail) ==
    /\ pc[Poller] = "p_read"
    /\ ok \in CallOutcomes
    /\ (ok /\ ~marker) \/ may_fail
    /\ issued' = Note(Poller, "readstate")
    /\ lock' = "free"
    /\ IF ok
       THEN /\ load_on' = out
            /\ poll_v' = v
            /\ has_comm_errors' = marker
            /\ pc' = [pc EXCEPT ![Poller] = IF marker THEN "mch_fail" ELSE "p_sync"]
            /\ ret' = IF marker THEN "p_snap" ELSE ret
       ELSE /\ pc' = [pc EXCEPT ![Poller] = "mch_fail"]
            /\ ret' = "p_sleep"
            /\ UNCHANGED pollVars
    /\ UNCHANGED <<execVars, status, now, healthVars, sessionVars, link, out, monVars,
                   si_handle, req, result>>

\* A synchronisation step that picks up a running device but never notices
\* that the device has switched its output off.
PollSync_OnOnly ==
    /\ pc[Poller] = "p_sync"
    /\ IF load_on = 1 /\ ~running
       THEN /\ running' = TRUE
            /\ pc' = [pc EXCEPT ![Poller] = "p_sync_on"]
       ELSE /\ running' = running
            /\ pc' = [pc EXCEPT ![Poller] = "p_snap"]
    /\ UNCHANGED <<execVars, status, now, healthVars, start_time, data_points, cur_voltage,
                   last_heartbeat, deviceVars, pollVars, monVars,
                   ret, issued, si_handle, req, result>>

\* update_data, lines 289-294 and 300-305: the running flag follows the
\* device's output flag.
PollSync ==
    /\ pc[Poller] = "p_sync"
    /\ IF load_on = 1 /\ ~running
       THEN /\ running' = TRUE
            /\ pc' = [pc EXCEPT ![Poller] = "p_sync_on"]
       ELSE IF load_on = 0 /\ running
       THEN /\ running' = FALSE
            /\ pc' = [pc EXCEPT ![Poller] = "p_sync_off"]
       ELSE /\ running' = running
            /\ pc' = [pc EXCEPT ![Poller] = "p_snap"]
    /\ UNCHANGED <<execVars, status, now, healthVars, start_time, data_points, cur_voltage,
                   last_heartbeat, deviceVars, pollVars, monVars,
                   ret, issued, si_handle, req, result>>

\* update_data, lines 295-297.
PollSyncOn ==
    /\ pc[Poller] = "p_sync_on"
    /\ IF start_time = None
       THEN start_time' = now /\ data_points' = <<>>
       ELSE UNCHANGED <<start_time, data_points>>
    /\ pc' = [pc EXCEPT ![Poller] = "p_snap"]
    /\ UNCHANGED <<execVars, status, now, healthVars, running, cur_voltage, last_heartbeat,
                   deviceVars, pollVars, monVars, ret, issued, si_handle, req, result>>

\* update_data, line 306.
PollSyncOff ==
    /\ pc[Poller] = "p_sync_off"
    /\ start_time' = None
    /\ pc' = [pc EXCEPT ![Poller] = "p_snap"]
    /\ UNCHANGED <<execVars, status, now, healthVars, running, data_points, cur_voltage,
                   last_heartbeat, deviceVars, pollVars, monVars,
                   ret, issued, si_handle, req, result>>

\* update_data, lines 310-329: the snapshot is replaced.
PollSnap ==
    /\ pc[Poller] = "p_snap"
    /\ cur_voltage' = poll_v
    /\ pc' = [pc EXCEPT ![Poller] = "p_log"]
    /\ UNCHANGED <<execVars, status, now, healthVars, running, start_time, data_points,
                   last_heartbeat, deviceVars, pollVars, monVars,
                   ret, issued, si_handle, req, result>>

\* update_data, lines 351-362: while running, append a data point and record
\* a success (a full log takes no more points: MaxLog). The iteration ends
\* and its locals are gone.
PollLog ==
    /\ pc[Poller] = "p_log"
    /\ IF running
       THEN /\ data_points' = IF Len(data_points) < MaxLog
                              THEN Append(data_points, "pt") ELSE data_points
            /\ connection_health' = HealthOnSuccess(connection_health)
       ELSE UNCHANGED <<data_points, connection_health>>
    /\ pc' = [pc EXCEPT ![Poller] = "p_sleep"]
    /\ load_on' = 0
    /\ has_comm_errors' = FALSE
    /\ poll_v' = 0
    /\ issued' = [issued EXCEPT ![Poller] = <<>>]
    /\ UNCHANGED <<execVars, status, now, prev_start, running, start_time, cur_voltage,
                   last_heartbeat, deviceVars, monVars,
                   ret, si_handle, req, result>>

\* ------------------------------------------------------------ stop procedure

FinalReads == <<"getvolt", "getamp", "getah", "getwh">>

\* stop_test_internal, line 462: the handle test.
SI_Begin(t) ==
    /\ pc[t] = "si_begin"
    /\ si_handle' = [si_handle EXCEPT ![t] = IF HandleExists THEN "yes" ELSE "no"]
    /\ pc' = [pc EXCEPT ![t] = IF HandleExists THEN "si_reads" ELSE "si_clear"]
    /\ UNCHANGED <<execVars, status, now, healthVars, sessionVars, deviceVars, pollVars, monVars,
                   ret, issued, req, result>>

\* stop_test_internal, lines 465-468: the four final reads, of which the
\* first k succeed; a failing read jumps to the handler of line 485.
SI_Reads(t, k) ==
    /\ pc[t] = "si_reads"
    /\ k \in (IF link = "open" THEN 0..4 ELSE {0})
    /\ issued' = [issued EXCEPT ![t] = @ \o SubSeq(FinalReads, 1, Min(k + 1, 4))]
    /\ pc' = [pc EXCEPT ![t] = IF k = 4 THEN "si_off" ELSE "si_clear"]
    /\ UNCHANGED <<execVars, status, now, healthVars, sessionVars, deviceVars, pollVars, monVars,
                   ret, si_handle, req, result>>

\* stop_test_internal, line 471: cmd_setonoff(0).
SI_Off(t, ok) ==
    /\ pc[t] = "si_off"
    /\ ok \in CallOutcomes
    /\ issued' = Note(t, "off")
    /\ out' = IF ok THEN 0 ELSE out
    /\ pc' = [pc EXCEPT ![t] = IF ok THEN "si_verify" ELSE "si_clear"]
    /\ UNCHANGED <<execVars, status, now, healthVars, sessionVars, link, lock, pollVars, monVars,
                   ret, si_handle, req, result>>

\* stop_test_internal, lines 474-475: the settle delay and cmd_getonoff().
SI_Verify(t, ok) ==
    /\ pc[t] = "si_verify"
    /\ ok \in CallOutcomes
    /\ issued' = Note(t, "getonoff")
    /\ pc' = [pc EXCEPT ![t] = "si_clear"]
    /\ UNCHANGED <<execVars, status, now, healthVars, sessionVars, deviceVars, pollVars, monVars,
                   ret, si_handle, req, result>>

\* A stop procedure that clears the flag only when no call failed.
SI_Clear_UnlessFailed(t) ==
    /\ pc[t] = "si_clear"
    /\ running' = IF Len(issued[t]) > 0 /\ issued[t][Len(issued[t])] = "getonoff"
                  THEN FALSE ELSE running
    /\ pc' = [pc EXCEPT ![t] = "si_clear2"]
    /\ UNCHANGED <<execVars, status, now, healthVars, start_time, data_points, cur_voltage,
                   last_heartbeat, deviceVars, pollVars, monVars,
                   ret, issued, si_handle, req, result>>

\* stop_test_internal, line 490.
SI_Clear(t) ==
    /\ pc[t] = "si_clear"
    /\ running' = FALSE
    /\ pc' = [pc EXCEPT ![t] = "si_clear2"]
    /\ UNCHANGED <<execVars, status, now, healthVars, start_time, data_points, cur_voltage,
                   last_heartbeat, deviceVars, pollVars, monVars,
                   ret, issued, si_handle, req, result>>

\* stop_test_internal, line 491.
SI_Clear2(t) ==
    /\ pc[t] = "si_clear2"
    /\ start_time' = None
    /\ pc' = [pc EXCEPT ![t] = "si_done"]
    /\ UNCHANGED <<execVars, status, now, healthVars, running, data_points, cur_voltage,
                   last_heartbeat, deviceVars, pollVars, monVars,
                   ret, issued, si_handle, req, result>>

\* The return of stop_test_internal: to test_monitor's break (lines 429, 437,
\* 446, 454: the thread ends) or to stop_test's response (line 663).
SI_Return(t) ==
    /\ pc[t] = "si_done"
    /\ IF t \in Mons
       THEN /\ pc' = [pc EXCEPT ![t] = "m_off"]
            /\ mon' = [mon EXCEPT ![t] = NoMon]
            /\ issued' = [issued EXCEPT ![t] = <<>>]
            /\ si_handle' = [si_handle EXCEPT ![t] = "none"]
            /\ UNCHANGED result
       ELSE /\ pc' = [pc EXCEPT ![t] = "r_done"]
            /\ result' = [result EXCEPT ![t] = "ok"]
            /\ UNCHANGED <<mon, issued, si_handle>>
    /\ UNCHANGED <<execVars, status, now, healthVars, sessionVars, deviceVars, pollVars, ret, req>>

StopProcedure(t, ks) ==
    \/ SI_Begin(t)
    \/ \E k \in ks : SI_Reads(t, k)
    \/ \E ok \in BOOLEAN : SI_Off(t, ok)
    \/ \E ok \in BOOLEAN : SI_Verify(t, ok)
    \/ SI_Clear(t)
    \/ SI_Clear2(t)
    \/ SI_Return(t)

\* -------------------------------------------------------------- test monitor

\* test_monitor, line 377: the thread begins and notes its start time.
MonInit(m) ==
    /\ pc[m] = "m_init"
    /\ mon' = [mon EXCEPT ![m].start = now]
    /\ pc' = [pc EXCEPT ![m] = "m_check"]
    /\ UNCHANGED <<execVars, status, now, healthVars, sessionVars, deviceVars, pollVars,
                   ret, issued, si_handle, req, result>>

\* A monitor without the heartbeat cutout.
StopReason_NoHeartbeat(v, cutoff, max_time, elapsed, hb, t) ==
    IF v > ValidFloor
    THEN IF v <= cutoff THEN "cutoff"
         ELSE IF max_time > 0 /\ elapsed >= max_time THEN "max_time"
         ELSE "none"
    ELSE "none"

\* A monitor that stops only strictly below the cutoff.
StopReason_Strict(v, cutoff, max_time, elapsed, hb, t) ==
    IF v > ValidFloor
    THEN IF v < cutoff THEN "cutoff"
         ELSE IF max_time > 0 /\ elapsed >= max_time THEN "max_time"
         ELSE IF hb > 0 /\ t - hb > HEARTBEAT_TIMEOUT THEN "heartbeat"
         ELSE "none"
    ELSE "none"

\* test_monitor, lines 421-446: which termination condition applies.
StopReason(v, cutoff, max_time, elapsed, hb, t) ==
    IF v > ValidFloor
    THEN IF v <= cutoff THEN "cutoff"
         ELSE IF max_time > 0 /\ elapsed >= max_time THEN "max_time"
         ELSE IF hb > 0 /\ t - hb > HEARTBEAT_TIMEOUT THEN "heartbeat"
         ELSE "none"
    ELSE "none"

\* test_monitor, lines 389-452: one pass of the loop, from its test of the
\* running flag to the sleep of line 452 or the call of the stop procedure.
MonCheck(m) ==
    /\ pc[m] = "m_check"
    /\ IF ~running
       THEN /\ pc' = [pc EXCEPT ![m] = "m_off"]
            /\ mon' = [mon EXCEPT ![m] = NoMon]
       ELSE LET why == StopReason(cur_voltage, mon[m].cutoff, mon[m].max_time,
                                  now - mon[m].start, last_heartbeat, now) IN
            /\ mon' = [mon EXCEPT ![m].why = why, ![m].current_voltage = cur_voltage,
                                  ![m].current_time = now]
            /\ pc' = [pc EXCEPT ![m] = IF why = "none" THEN "m_check" ELSE "si_begin"]
    /\ UNCHANGED <<execVars, status, now, healthVars, sessionVars, deviceVars, pollVars,
                   ret, issued, si_handle, req, result>>

\* --------------------------------------------------------- request handlers

FreeMons(ms) == {m \in ms : pc[m] = "m_off"}
Starting == {r \in Reqs : pc[r] \in {"st_reset", "st_setcur", "st_setcut", "st_on",
                                      "st_flags", "st_time", "st_clear", "st_spawn"}}

Respond(r, res) ==
    /\ pc' = [pc EXCEPT ![r] = "r_done"]
    /\ result' = [result EXCEPT ![r] = res]

\* A startTest that does not test the running flag.
StartBegin_NoRunningTest(r, cutoff, max_time, ms) ==
    /\ pc[r] = "idle"
    /\ issued' = [issued EXCEPT ![r] = <<>>]
    /\ IF ~HandleExists
       THEN Respond(r, "NotConnected") /\ UNCHANGED req
       ELSE /\ Cardinality(FreeMons(ms)) > Cardinality(Starting)
            /\ pc' = [pc EXCEPT ![r] = "st_reset"]
            /\ result' = [result EXCEPT ![r] = "none"]
            /\ req' = [req EXCEPT ![r] = [cutoff |-> cutoff, max_time |-> max_time]]
    /\ UNCHANGED <<execVars, status, now, healthVars, sessionVars, deviceVars, pollVars, monVars,
                   ret, si_handle>>

\* start_test, lines 557-566: the two precondition tests and the parameters
\* (a test that goes on needs a monitor thread that is left: Mons).
StartBegin(r, cutoff, max_time, ms) ==
    /\ pc[r] = "idle"
    /\ issued' = [issued EXCEPT ![r] = <<>>]
    /\ IF running
       THEN Respond(r, "AlreadyRunning") /\ UNCHANGED req
       ELSE IF ~HandleExists
       THEN Respond(r, "NotConnected") /\ UNCHANGED req
       ELSE /\ Cardinality(FreeMons(ms)) > Cardinality(Starting)
            /\ pc' = [pc EXCEPT ![r] = "st_reset"]
            /\ result' = [result EXCEPT ![r] = "none"]
            /\ req' = [req EXCEPT ![r] = [cutoff |-> cutoff, max_time |-> max_time]]
    /\ UNCHANGED <<execVars, status, now, healthVars, sessionVars, deviceVars, pollVars, monVars,
                   ret, si_handle>>

\* A configuration step whose failure ends the call.
StartSetup_Fatal(r, ok) ==
    /\ pc[r] \in {"st_reset", "st_setcur", "st_setcut"}
    /\ ok \in CallOutcomes
    /\ issued' = Note(r, CASE pc[r] = "st_reset" -> "resetcounters"
                           [] pc[r] = "st_setcur" -> "setcurrent"
                           [] OTHER -> "setcutoff")
    /\ IF ok
       THEN /\ pc' = [pc EXCEPT ![r] = CASE pc[r] = "st_reset" -> "st_setcur"
                                         [] pc[r] = "st_setcur" -> "st_setcut"
                                         [] OTHER -> "st_on"]
            /\ UNCHANGED result
       ELSE Respond(r, "DeviceError")
    /\ UNCHANGED <<execVars, status, now, healthVars, sessionVars, deviceVars, pollVars, monVars,
                   ret, si_handle, req>>

\* start_test, lines 573-594: reset-accumulators, set-current, set-cutoff,
\* each best effort.
StartSetup(r, ok) ==
    /\ pc[r] \in {"st_reset", "st_setcur", "st_setcut"}
    /\ ok \in CallOutcomes
    /\ issued' = Note(r, CASE pc[r] = "st_reset" -> "resetcounters"
                           [] pc[r] = "st_setcur" -> "setcurrent"
                           [] OTHER -> "setcutoff")
    /\ pc' = [pc EXCEPT ![r] = CASE pc[r] = "st_reset" -> "st_setcur"
                                 [] pc[r] = "st_setcur" -> "st_setcut"
                                 [] OTHER -> "st_on"]
    /\ UNCHANGED <<execVars, status, now, healthVars, sessionVars, deviceVars, pollVars, monVars,
                   ret, si_handle, req, result>>

\* An output-ON step that marks the session running before it commands.
StartOn_FlagsFirst(r, ok) ==
    /\ pc[r] = "st_on"
    /\ ok \in CallOutcomes
    /\ issued' = Note(r, "on")
    /\ running' = TRUE
    /\ last_heartbeat' = now
    /\ IF ok
       THEN /\ out' = 1
            /\ pc' = [pc EXCEPT ![r] = "st_flags"]
            /\ UNCHANGED result
       ELSE /\ out' = out
            /\ Respond(r, "DeviceError")
    /\ UNCHANGED <<execVars, status, now, healthVars, start_time, data_points, cur_voltage,
                   link, lock, pollVars, monVars, ret, si_handle, req>>

\* start_test, lines 597-603 and 633-634: cmd_setonoff(1); its failure ends
\* the call.
StartOn(r, ok) ==
    /\ pc[r] = "st_on"
    /\ ok \in CallOutcomes
    /\ issued' = Note(r, "on")
    /\ IF ok
       THEN /\ out' = 1
            /\ pc' = [pc EXCEPT ![r] = "st_flags"]
            /\ UNCHANGED result
       ELSE /\ out' = out
            /\ Respond(r, "DeviceError")
    /\ UNCHANGED <<execVars, status, now, healthVars, sessionVars, link, lock, pollVars, monVars,
                   ret, si_handle, req>>

\* start_test, lines 609-610.
StartFlags(r) ==
    /\ pc[r] = "st_flags"
    /\ last_heartbeat' = now
    /\ running' = TRUE
    /\ pc' = [pc EXCEPT ![r] = "st_time"]
    /\ UNCHANGED <<execVars, status, now, healthVars, start_time, data_points, cur_voltage,
                   deviceVars, pollVars, monVars, ret, issued, si_handle, req, result>>

\* start_test, line 611.
StartTime(r) ==
    /\ pc[r] = "st_time"
    /\ start_time' = now
    /\ pc' = [pc EXCEPT ![r] = "st_clear"]
    /\ UNCHANGED <<execVars, status, now, healthVars, running, data_points, cur_voltage,
                   last_heartbeat, deviceVars, pollVars, monVars,
                   ret, issued, si_handle, req, result>>

\* start_test, lines 612-622.
StartClear(r) ==
    /\ pc[r] = "st_clear"
    /\ data_points' = <<>>
    /\ cur_voltage' = 0
    /\ pc' = [pc EXCEPT ![r] = "st_spawn"]
    /\ UNCHANGED <<execVars, status, now, healthVars, running, start_time, last_heartbeat,
                   deviceVars, pollVars, monVars, ret, issued, si_handle, req, result>>

\* start_test, lines 625-631: the monitor thread is started.
StartSpawn(r, ms) ==
    /\ pc[r] = "st_spawn"
    /\ FreeMons(ms) # {}
    /\ LET m == CHOOSE x \in FreeMons(ms) : TRUE IN
         /\ pc' = [pc EXCEPT ![r] = "r_done", ![m] = "m_init"]
         /\ mon' = [mon EXCEPT ![m] = [cutoff |-> req[r].cutoff,
                                       max_time |-> req[r].max_time,
                                       start |-> 0, current_voltage |-> 0,
                                       current_time |-> 0, why |-> "none"]]
    /\ result' = [result EXCEPT ![r] = "ok"]
    /\ UNCHANGED <<execVars, status, now, healthVars, sessionVars, deviceVars, pollVars,
                   ret, issued, si_handle, req>>

StartTest(r, ms) ==
    \/ \E ok \in BOOLEAN : StartSetup(r, ok)
    \/ \E ok \in BOOLEAN : StartOn(r, ok)
    \/ StartFlags(r)
    \/ StartTime(r)
    \/ StartClear(r)
    \/ StartSpawn(r, ms)

StopReads == <<"readstate", "getvolt", "getamp", "getah", "getwh">>

\* A stopTest that does not test the running flag.
StopBegin_Always(r) ==
    /\ pc[r] = "idle"
    /\ issued' = [issued EXCEPT ![r] = <<>>]
    /\ si_handle' = [si_handle EXCEPT ![r] = "none"]
    /\ pc' = [pc EXCEPT ![r] = "sp_read"]
    /\ result' = [result EXCEPT ![r] = "none"]
    /\ UNCHANGED <<execVars, status, now, healthVars, sessionVars, deviceVars, pollVars, monVars,
                   ret, req>>

\* stop_test, lines 641-642: stopping a stopped session succeeds at once.
StopBegin(r) ==
    /\ pc[r] = "idle"
    /\ issued' = [issued EXCEPT ![r] = <<>>]
    /\ si_handle' = [si_handle EXCEPT ![r] = "none"]
    /\ IF ~running
       THEN Respond(r, "ok")
       ELSE /\ pc' = [pc EXCEPT ![r] = "sp_read"]
            /\ result' = [result EXCEPT ![r] = "none"]
    /\ UNCHANGED <<execVars, status, now, healthVars, sessionVars, deviceVars, pollVars, monVars,
                   ret, req>>

\* stop_test, lines 648-660: five best-effort reads, of which the first k
\* succeed, then the stop procedure.
StopRead(r, k) ==
    /\ pc[r] = "sp_read"
    /\ k \in (IF link = "open" THEN 0..5 ELSE {0})
    /\ issued' = [issued EXCEPT ![r] = @ \o SubSeq(StopReads, 1, Min(k + 1, 5))]
    /\ pc' = [pc EXCEPT ![r] = "si_begin"]
    /\ UNCHANGED <<execVars, status, now, healthVars, sessionVars, deviceVars, pollVars, monVars,
                   ret, si_handle, req, result>>

\* get_status, lines 502 and 513-518: the fields of the response that come
\* from the instrument: those of cmd_readstate() when it succeeded (read),
\* the defaults of device_state.get() otherwise.
StatusOf(read) ==
    [load_on |-> IF read THEN out ELSE 0,
     limits |-> IF read THEN "device" ELSE "default"]

\* get_status, lines 504-506: the handle test and the entry of serial_lock.
StatusBegin(r) ==
    /\ pc[r] = "idle"
    /\ issued' = [issued EXCEPT ![r] = <<>>]
    /\ IF HandleExists
       THEN /\ lock = "free"
            /\ lock' = r
            /\ pc' = [pc EXCEPT ![r] = "gs_read"]
            /\ result' = [result EXCEPT ![r] = "none"]
            /\ UNCHANGED status
       ELSE /\ Respond(r, "ok")
            /\ status' = StatusOf(FALSE)
            /\ lock' = lock
    /\ UNCHANGED <<execVars, now, healthVars, sessionVars, link, out, pollVars, monVars,
                   ret, si_handle, req>>

\* A get_status that lets the failure of the read reach its caller.
StatusRead_Propagates(r, ok) ==
    /\ pc[r] = "gs_read"
    /\ ok \in CallOutcomes
    /\ issued' = Note(r, "readstate")
    /\ lock' = "free"
    /\ Respond(r, IF ok THEN "ok" ELSE "DeviceError")
    /\ status' = StatusOf(ok)
    /\ UNCHANGED <<execVars, now, healthVars, sessionVars, link, out, pollVars, monVars,
                   ret, si_handle, req>>

\* get_status, lines 508-526: cmd_readstate() inside serial_lock; a failure
\* leaves the fields at their defaults.
StatusRead(r, ok) ==
    /\ pc[r] = "gs_read"
    /\ ok \in CallOutcomes
    /\ issued' = Note(r, "readstate")
    /\ lock' = "free"
    /\ Respond(r, "ok")
    /\ status' = StatusOf(ok)
    /\ UNCHANGED <<execVars, now, healthVars, sessionVars, link, out, pollVars, monVars,
                   ret, si_handle, req>>

\* reset_counters, lines 681-688.
ResetCounters(r, ok) ==
    /\ pc[r] = "idle"
    /\ ok \in CallOutcomes
    /\ IF ~HandleExists
       THEN issued' = [issued EXCEPT ![r] = <<>>] /\ Respond(r, "NotConnected")
       ELSE /\ issued' = [issued EXCEPT ![r] = <<"resetcounters">>]
            /\ Respond(r, IF ok THEN "ok" ELSE "DeviceError")
    /\ UNCHANGED <<execVars, status, now, healthVars, sessionVars, deviceVars, pollVars, monVars,
                   ret, si_handle, req>>

\* heartbeat, lines 691-695.
Heartbeat(r) ==
    /\ pc[r] = "idle"
    /\ last_heartbeat' = now
    /\ UNCHANGED <<execVars, status, now, healthVars, running, start_time, data_points, cur_voltage,
                   deviceVars, pollVars, monVars, threadVars>>

\* api_reconnect, lines 533-541: refused while a test runs.
ApiReconnectBegin(r) ==
    /\ pc[r] = "idle"
    /\ issued' = [issued EXCEPT ![r] = <<>>]
    /\ IF running
       THEN Respond(r, "Running")
       ELSE /\ pc' = [pc EXCEPT ![r] = "rc_close"]
            /\ result' = [result EXCEPT ![r] = "none"]
    /\ UNCHANGED <<execVars, status, now, healthVars, sessionVars, deviceVars, pollVars, monVars,
                   ret, si_handle, req>>

\* The response has been sent; the thread's locals are gone and it serves the
\* next request.
Return(r) ==
    /\ pc[r] = "r_done"
    /\ pc' = [pc EXCEPT ![r] = "idle"]
    /\ issued' = [issued EXCEPT ![r] = <<>>]
    /\ si_handle' = [si_handle EXCEPT ![r] = "none"]
    /\ req' = [req EXCEPT ![r] = NoReq]
    /\ result' = [result EXCEPT ![r] = "none"]
    /\ status' = NoStatus
    /\ UNCHANGED <<execVars, now, healthVars, sessionVars, deviceVars, pollVars, monVars, ret>>

\* A caller feeding manage_connection_health(True).
CallSuccess ==
    /\ pc[Harness] = "idle"
    /\ connection_health' = HealthOnSuccess(connection_health)
    /\ UNCHANGED <<execVars, status, now, prev_start, sessionVars, deviceVars, pollVars, monVars,
                   threadVars>>

\* A caller feeding manage_connection_health(False).
CallFailure ==
    /\ pc[Harness] = "idle"
    /\ connection_health.consecutive_failures < MaxFailures
    /\ pc' = [pc EXCEPT ![Harness] = "mch_fail"]
    /\ issued' = [issued EXCEPT ![Harness] = <<>>]
    /\ UNCHANGED <<execVars, status, now, healthVars, sessionVars, deviceVars, pollVars, monVars,
                   ret, si_handle, req, result>>

\* The instrument's front panel, or its own cutoff, switches the output.
PanelSwitch(v) ==
    /\ out # v
    /\ out' = v
    /\ UNCHANGED <<execVars, status, now, healthVars, sessionVars, link, lock, pollVars, monVars,
                   threadVars>>

\* -------------------------------------------------------- test cycle executor

\* The loaded cycle definitions (test_cycles_18650.json, read at line 15).
\* Times are in half seconds, voltages in tenths of a volt, currents in
\* hundredths of an ampere. A discharge phase without duration has
\* duration 0 ("if duration" is false for None and for 0 alike), one without
\* max_time has NoLimit.
RestPhase == [name |-> "settle", type |-> "rest", duration |-> RestDuration]
TimedDischarge ==
    [name |-> "pulse", type |-> "discharge", current |-> 100, cutoff_voltage |-> 25,
     max_time |-> NoLimit, duration |-> PulseDuration, log_interval |-> 1]
CutoffDischarge ==
    [name |-> "drain", type |-> "discharge", current |-> 50, cutoff_voltage |-> 30,
     max_time |-> DrainMaxTime, duration |-> 0, log_interval |-> 1]
RampPhase ==
    [name |-> "sweep", type |-> "ramp", start_current |-> 50, end_current |-> 200,
     duration |-> RampSteps * RampStepDuration, steps |-> RampSteps]
UnknownPhase == [name |-> "charge", type |-> "charge"]

test_cycles ==
    [capacity |-> <<RestPhase, CutoffDischarge>>,
     pulse |-> <<TimedDischarge, RampPhase>>,
     faulty |-> <<UnknownPhase, TimedDischarge>>]

CycleNames == {"capacity", "pulse", "faulty", "missing"}
Known(c) == c \in DOMAIN test_cycles

\* The instrument's setting commands, as the executor issues them.
Cmd(c, arg) == [cmd |-> c, arg |-> arg]
OutputOf(c, prev) ==
    IF c.cmd = "setonoff" THEN (IF c.arg = 1 THEN "on" ELSE "off") ELSE prev

\* The thread running run_cycle issues command c.
XIssue(c) ==
    /\ xissued' = Append(xissued, c)
    /\ last_output' = OutputOf(c, last_output)

\* An exception leaves run_cycle.
XRaise(e) ==
    /\ xpc' = "x_raised"
    /\ xresult' = e

\* A failing phase taken for a successful cycle.
XFail_Success ==
    /\ xpc' = "x_done"
    /\ xresult' = "True"

\* A phase returns False and run_cycle with it (lines 218-220).
XFail ==
    /\ xpc' = "x_done"
    /\ xresult' = "False"

\* A phase returns True: run_cycle's loop goes on (line 216).
XPhaseDone ==
    /\ xpc' = "x_next"
    /\ xloc' = [NoLocals EXCEPT !.i = xloc.i + 1]

\* _log_datapoint, lines 193-206: the point carries the time since the phase
\* began, the name of the current phase and the phase type its caller passes.
Logged(phase_type) ==
    Append(cycle_data, [elapsed |-> xclock - phase_start_time,
                        phase |-> current_phase.name,
                        phase_type |-> phase_type])

\* start_cycle taking over the executor before it looks the name up.
RunCycle_ClearFirst(c) ==
    /\ xpc = "x_idle"
    /\ calls.run < MaxRuns
    /\ calls' = [calls EXCEPT !.run = @ + 1]
    /\ xissued' = <<>>
    /\ xphases' = <<>>
    /\ xloc' = NoLocals
    /\ IF Known(c)
       THEN /\ current_cycle' = c
            /\ self_running' = TRUE
            /\ cycle_data' = <<>>
            /\ xpc' = "x_next"
            /\ xresult' = "none"
       ELSE /\ XRaise("ValueError")
            /\ self_running' = TRUE
            /\ cycle_data' = <<>>
            /\ UNCHANGED current_cycle
    /\ UNCHANGED <<serverVars, exportVars, xclock, current_phase, phase_start_time, spc,
                   last_output>>

\* run_cycle, lines 208-214, with start_cycle, lines 42-55.
RunCycle(c) ==
    /\ xpc = "x_idle"
    /\ calls.run < MaxRuns
    /\ calls' = [calls EXCEPT !.run = @ + 1]
    /\ xissued' = <<>>
    /\ xphases' = <<>>
    /\ xloc' = NoLocals
    /\ IF Known(c)
       THEN /\ current_cycle' = c
            /\ self_running' = TRUE
            /\ cycle_data' = <<>>
            /\ xpc' = "x_next"
            /\ xresult' = "none"
       ELSE /\ XRaise("ValueError")
            /\ UNCHANGED <<current_cycle, self_running, cycle_data>>
    /\ UNCHANGED <<serverVars, exportVars, xclock, current_phase, phase_start_time, spc,
                   last_output>>

\* run_cycle, lines 216-223, with execute_phase, lines 57-75: the next phase
\* is taken and dispatched on its type, or the cycle is complete.
NextPhase ==
    /\ xpc = "x_next"
    /\ LET phases == test_cycles[current_cycle] IN
       IF xloc.i = Len(phases)
       THEN /\ xpc' = "x_done"
            /\ xresult' = "True"
            /\ UNCHANGED <<current_phase, phase_start_time, xphases, xloc>>
       ELSE LET phase == phases[xloc.i + 1] IN
            /\ current_phase' = phase
            /\ xphases' = Append(xphases, phase.name)
            /\ xloc' = [xloc EXCEPT !.base = Len(xissued), !.logbase = Len(cycle_data)]
            /\ phase_start_time' = xclock
            /\ IF phase.type = "rest" THEN xpc' = "x_rest_off" /\ UNCHANGED xresult
               ELSE IF phase.type = "discharge" THEN xpc' = "x_dis_cur" /\ UNCHANGED xresult
               ELSE IF phase.type = "ramp" THEN xpc' = "x_ramp_loop" /\ UNCHANGED xresult
               ELSE XFail
    /\ UNCHANGED <<serverVars, exportVars, xclock, self_running, current_cycle, cycle_data,
                   xissued, spc, last_output, calls>>

\* _execute_rest, lines 79-85: output off, then the loop begins.
RestOff(ok) ==
    /\ xpc = "x_rest_off"
    /\ XIssue(Cmd("setonoff", 0))
    /\ IF ok
       THEN /\ xpc' = "x_rest_loop"
            /\ xloc' = [xloc EXCEPT !.start_time = xclock]
            /\ UNCHANGED xresult
       ELSE XRaise("DeviceError") /\ UNCHANGED xloc
    /\ UNCHANGED <<serverVars, exportVars, xphases, xclock, self_running, current_cycle,
                   current_phase,
                   phase_start_time, cycle_data, spc, calls>>

\* _execute_rest, lines 86-95: one pass of the loop, with its sleep of 1 s.
RestLoop(ok) ==
    /\ xpc = "x_rest_loop"
    /\ IF xclock - xloc.start_time < current_phase.duration
       THEN IF ~self_running
            THEN XFail /\ UNCHANGED <<xloc, cycle_data, xclock>>
            ELSE IF ok
            THEN /\ cycle_data' = Logged("rest")
                 /\ xclock' = xclock + 2
                 /\ UNCHANGED <<xpc, xloc, xresult>>
            ELSE XRaise("DeviceError") /\ UNCHANGED <<xloc, cycle_data, xclock>>
       ELSE XPhaseDone /\ UNCHANGED <<xresult, cycle_data, xclock>>
    /\ UNCHANGED <<serverVars, exportVars, xphases, self_running, current_cycle, current_phase,
                   phase_start_time, xissued, spc, last_output, calls>>

\* _execute_discharge, lines 112-117: set-current, set-cutoff, output on.
DischargeSetup(ok) ==
    /\ xpc \in {"x_dis_cur", "x_dis_cut", "x_dis_on"}
    /\ XIssue(CASE xpc = "x_dis_cur" -> Cmd("setcurrent", current_phase.current)
                [] xpc = "x_dis_cut" -> Cmd("setcutoff", current_phase.cutoff_voltage)
                [] OTHER -> Cmd("setonoff", 1))
    /\ IF ok
       THEN /\ xpc' = CASE xpc = "x_dis_cur" -> "x_dis_cut"
                        [] xpc = "x_dis_cut" -> "x_dis_on"
                        [] OTHER -> "x_dis_loop"
            /\ xloc' = IF xpc = "x_dis_on"
                       THEN [xloc EXCEPT !.start_time = xclock, !.last_log = 0]
                       ELSE xloc
            /\ UNCHANGED xresult
       ELSE XRaise("DeviceError") /\ UNCHANGED xloc
    /\ UNCHANGED <<serverVars, exportVars, xphases, xclock, self_running, current_cycle,
                   current_phase,
                   phase_start_time, cycle_data, spc, calls>>

\* A discharge that the cutoff voltage ends also when it has a duration.
DischargeEnds_CutoffAlways(phase, elapsed, voltage) ==
    \/ voltage <= phase.cutoff_voltage
    \/ IF phase.duration # 0
       THEN elapsed >= phase.duration
       ELSE elapsed >= phase.max_time

\* _execute_discharge, lines 129-142: whether this pass ends the phase.
DischargeEnds(phase, elapsed, voltage) ==
    IF phase.duration # 0
    THEN elapsed >= phase.duration
    ELSE voltage <= phase.cutoff_voltage \/ elapsed >= phase.max_time

\* _execute_discharge, lines 119-153: one pass of the loop, with its sleep of
\* 0.5 s. The voltage read (volt_ok, voltage) or the reads of the logging
\* (log_ok) may raise.
DischargeLoop(volt_ok, voltage, log_ok) ==
    /\ xpc = "x_dis_loop"
    /\ LET elapsed == xclock - xloc.start_time IN
       IF ~self_running
       THEN /\ XIssue(Cmd("setonoff", 0))
            /\ XFail
            /\ UNCHANGED <<xloc, cycle_data, xclock>>
       ELSE IF ~volt_ok
       THEN XRaise("DeviceError") /\ UNCHANGED <<xloc, cycle_data, xclock, xissued, last_output>>
       ELSE IF DischargeEnds(current_phase, elapsed, voltage)
       THEN /\ xpc' = "x_dis_off"
            /\ UNCHANGED <<xresult, xloc, cycle_data, xclock, xissued, last_output>>
       ELSE IF elapsed - xloc.last_log >= current_phase.log_interval
       THEN IF log_ok
            THEN /\ cycle_data' = Logged("discharge")
                 /\ xloc' = [xloc EXCEPT !.last_log = elapsed]
                 /\ xclock' = xclock + 1
                 /\ UNCHANGED <<xpc, xresult, xissued, last_output>>
            ELSE XRaise("DeviceError")
                 /\ UNCHANGED <<xloc, cycle_data, xclock, xissued, last_output>>
       ELSE /\ xclock' = xclock + 1
            /\ UNCHANGED <<xpc, xresult, xloc, cycle_data, xissued, last_output>>
    /\ UNCHANGED <<serverVars, exportVars, xphases, self_running, current_cycle, current_phase,
                   phase_start_time, spc, calls>>

\* _execute_discharge, lines 155-157: output off, the phase is complete.
DischargeOff(ok) ==
    /\ xpc = "x_dis_off"
    /\ XIssue(Cmd("setonoff", 0))
    /\ IF ok
       THEN XPhaseDone /\ UNCHANGED xresult
       ELSE XRaise("DeviceError") /\ UNCHANGED xloc
    /\ UNCHANGED <<serverVars, exportVars, xphases, xclock, self_running, current_cycle,
                   current_phase,
                   phase_start_time, cycle_data, spc, calls>>

\* _execute_ramp, lines 171-174: the head of the loop and the abort test.
RampCheck ==
    /\ xpc = "x_ramp_loop"
    /\ IF xloc.step = current_phase.steps
       THEN XPhaseDone /\ UNCHANGED <<xresult, xissued, last_output>>
       ELSE IF ~self_running
       THEN XIssue(Cmd("setonoff", 0)) /\ XFail /\ UNCHANGED xloc
       ELSE /\ xpc' = "x_ramp_set"
            /\ UNCHANGED <<xresult, xloc, xissued, last_output>>
    /\ UNCHANGED <<serverVars, exportVars, xphases, xclock, self_running, current_cycle,
                   current_phase,
                   phase_start_time, cycle_data, spc, calls>>

\* A ramp that reaches end_current with its last step.
RampCurrent_Inclusive(phase, step) ==
    phase.start_current
        + ((phase.end_current - phase.start_current) \div (phase.steps - 1)) * step

\* _execute_ramp, lines 168-169 and 176: the setpoint of a step.
RampCurrent(phase, step) ==
    phase.start_current + ((phase.end_current - phase.start_current) \div phase.steps) * step

\* _execute_ramp, lines 176-180: set-current, and output on in the first step.
RampSet(ok) ==
    /\ xpc \in {"x_ramp_set", "x_ramp_on"}
    /\ XIssue(IF xpc = "x_ramp_set"
              THEN Cmd("setcurrent", RampCurrent(current_phase, xloc.step))
              ELSE Cmd("setonoff", 1))
    /\ IF ok
       THEN /\ xpc' = IF xpc = "x_ramp_set" /\ xloc.step = 0 THEN "x_ramp_on"
                      ELSE "x_ramp_log"
            /\ UNCHANGED xresult
       ELSE XRaise("DeviceError")
    /\ UNCHANGED <<serverVars, exportVars, xphases, xclock, self_running, current_cycle,
                   current_phase,
                   phase_start_time, cycle_data, xloc, spc, calls>>

\* _execute_ramp, lines 183-188: the data point, the voltage read and the
\* sleep of one step.
RampLog(ok) ==
    /\ xpc = "x_ramp_log"
    /\ IF ok
       THEN /\ cycle_data' = Logged("ramp")
            /\ xclock' = xclock + current_phase.duration \div current_phase.steps
            /\ xloc' = [xloc EXCEPT !.step = @ + 1]
            /\ xpc' = "x_ramp_loop"
            /\ UNCHANGED xresult
       ELSE XRaise("DeviceError") /\ UNCHANGED <<cycle_data, xclock, xloc>>
    /\ UNCHANGED <<serverVars, exportVars, xphases, self_running, current_cycle, current_phase,
                   phase_start_time, xissued, spc, last_output, calls>>

\* run_cycle has returned to its caller, which may call it again.
XReturn ==
    /\ xpc = "x_done"
    /\ xpc' = "x_idle"
    /\ UNCHANGED <<serverVars, exportVars, xphases, xclock, self_running, current_cycle,
                   current_phase,
                   phase_start_time, cycle_data, xloc, xissued, xresult, spc,
                   last_output, calls>>

\* The caller's handler of an exception, lines 305-307: it calls stop()
\* (lines 227-228).
XHandle ==
    /\ xpc \in {"x_raised", "x_stop_off"}
    /\ IF xpc = "x_raised"
       THEN /\ self_running' = FALSE
            /\ xpc' = "x_stop_off"
            /\ UNCHANGED last_output
       ELSE /\ last_output' = "off"
            /\ xpc' = "x_idle"
            /\ UNCHANGED self_running
    /\ UNCHANGED <<serverVars, exportVars, xphases, xclock, current_cycle, current_phase,
                   phase_start_time,
                   cycle_data, xloc, xissued, xresult, spc, calls>>

\* stop(), line 227, called by another thread.
StopFlag ==
    /\ spc = "s_idle"
    /\ calls.stop < MaxStops
    /\ calls' = [calls EXCEPT !.stop = @ + 1]
    /\ self_running' = FALSE
    /\ spc' = "s_off"
    /\ UNCHANGED <<serverVars, exportVars, xphases, xclock, current_cycle, current_phase,
                   phase_start_time,
                   cycle_data, xpc, xloc, xissued, xresult, last_output>>

\* stop(), line 228.
StopOff ==
    /\ spc = "s_off"
    /\ last_output' = "off"
    /\ spc' = "s_idle"
    /\ UNCHANGED <<serverVars, exportVars, xphases, xclock, self_running, current_cycle,
                   current_phase,
                   phase_start_time, cycle_data, xpc, xloc, xissued, xresult, calls>>

\* export_data, lines 232-234: the file name, the default one carrying the
\* time of the call to the second.
FileName(filename) ==
    IF filename = ""
    THEN [base |-> "test_cycle", stamp |-> xclock \div 2]
    ELSE [base |-> filename, stamp |-> None]

\* export_data, lines 242-245 and 249-260: the header line and the line of a
\* data point, the elapsed time written with one decimal.
CsvHeader == <<"elapsed_s", "phase", "phase_type">>
CsvRow_TypeForName(dp) ==
    <<<<dp.elapsed \div 2, 5 * (dp.elapsed % 2)>>, dp.phase_type, dp.phase_type>>
CsvRow(dp) == <<<<dp.elapsed \div 2, 5 * (dp.elapsed % 2)>>, dp.phase, dp.phase_type>>

\* export_data writing the file before it looks at the data log.
ExportData_HeaderFirst(filename) ==
    /\ xpc = "x_idle"
    /\ calls.export < MaxExports
    /\ calls' = [calls EXCEPT !.export = @ + 1]
    /\ IF cycle_data = <<>>
       THEN /\ exported' = "False"
            /\ files' = (FileName(filename) :> <<CsvHeader>>) @@ files
       ELSE /\ files' = (FileName(filename) :>
                           <<CsvHeader>> \o [k \in 1..Len(cycle_data) |-> CsvRow(cycle_data[k])])
                        @@ files
            /\ exported' = "True"
    /\ UNCHANGED <<serverVars, xclock, self_running, current_cycle, current_phase,
                   phase_start_time, cycle_data, xpc, xloc, xissued, xphases, xresult,
                   spc, last_output>>

\* export_data, lines 230-263, called between the calls of run_cycle.
ExportData(filename) ==
    /\ xpc = "x_idle"
    /\ calls.export < MaxExports
    /\ calls' = [calls EXCEPT !.export = @ + 1]
    /\ IF cycle_data = <<>>
       THEN /\ exported' = "False"
            /\ UNCHANGED files
       ELSE /\ files' = (FileName(filename) :>
                           <<CsvHeader>> \o [k \in 1..Len(cycle_data) |-> CsvRow(cycle_data[k])])
                        @@ files
            /\ exported' = "True"
    /\ UNCHANGED <<serverVars, xclock, self_running, current_cycle, current_phase,
                   phase_start_time, cycle_data, xpc, xloc, xissued, xphases, xresult,
                   spc, last_output>>

\* ------------------------------------------------------------ specifications

\* Inputs: snapshot voltages (0.5 V lies below the validity floor), cutoff
\* voltages and maximum times of startTest.
Volts == {5, 30, 40}
Cutoffs == {30}
MaxTimes == {0, 10}

\* Whether the model lets a poll iteration fail: not once the failure counter
\* has reached its bound (or the poll interval max_interval).
MayFail(max_interval) ==
    /\ connection_health.consecutive_failures < MaxFailures
    /\ connection_health.update_interval < max_interval

\* One iteration of update_data's loop, apart from the health monitor's part
\* in a failing one.
PollIteration(vs, may_fail) ==
    \/ PollBegin
    \/ \E ok \in BOOLEAN : PollRecv(ok, may_fail)
    \/ \E ok \in BOOLEAN, v \in vs, marker \in BOOLEAN : PollRead(ok, v, marker, may_fail)
    \/ PollSync
    \/ PollSyncOn
    \/ PollSyncOff
    \/ PollSnap
    \/ PollLog

\* startTest and stopTest as one handler thread serves them (ks: how many of
\* the final reads may succeed).
StartStop(r, mts, ms, ks) ==
    \/ \E c \in Cutoffs, mt \in mts : StartBegin(r, c, mt, ms)
    \/ StartTest(r, ms)
    \/ StopBegin(r)
    \/ \E k \in ks \cup {5} : StopRead(r, k)
    \/ StopProcedure(r, ks)
    \/ Return(r)

\* The manual reconnect as a handler thread serves it.
ApiReconnect(r) ==
    \/ ApiReconnectBegin(r)
    \/ ReconnectDevice(r)

GetStatus(r) ==
    \/ StatusBegin(r)
    \/ \E ok \in BOOLEAN : StatusRead(r, ok)
    \/ Return(r)

Queries(r) ==
    \/ GetStatus(r)
    \/ \E ok \in BOOLEAN : ResetCounters(r, ok)
    \/ Heartbeat(r)

MonitorStep(m, ks) ==
    \/ MonInit(m)
    \/ MonCheck(m)
    \/ StopProcedure(m, ks)

\* Whether thread t is between operations: asleep in its loop, or idle.
AtRest(t) == pc[t] \in {"p_sleep", "idle", "m_off", "m_init", "m_check"}
Alone(t) == \A u \in Threads \ {t} : AtRest(u)

\* Every interleaving, statement by statement, of the polling loop, a handler
\* thread serving startTest, stopTest and the manual reconnect, and the monitor
\* of the running test.
Next ==
    \/ PollIteration({30}, FALSE)
    \/ StartStop("r1", {0}, {"m1"}, {0, 4})
    \/ ApiReconnect("r1")
    \/ MonitorStep("m1", {0, 4})
    \/ \E v \in {0, 1} : PanelSwitch(v)

Spec == Init /\ [][Next]_vars

\* One operation at a time: a poll iteration, a request or a monitor pass runs
\* to its end before another thread moves.
NextSeq ==
    \/ Alone(Poller) /\ PollIteration(Volts, FALSE)
    \/ Alone("r1") /\ (StartStop("r1", MaxTimes, {"m1"}, 0..4) \/ Queries("r1"))
    \/ Alone("m1") /\ MonitorStep("m1", 0..4)
    \/ \E v \in {0, 1} : PanelSwitch(v)
    \/ Tick(TickLarge, MaxNowSpec)

SpecSeq == Init /\ [][NextSeq]_vars

\* The polling loop on a failing link, with its forced reconnects, beside a
\* handler serving getStatus.
NextLink ==
    \/ PollIteration({40}, MayFail(MaxLinkInterval))
    \/ Reconnect(Poller)
    \/ GetStatus("r1")
    \/ \E v \in {0, 1} : PanelSwitch(v)
    \/ Tick(TickLarge, MaxNowLink)

SpecLink == Init /\ [][NextLink]_vars

NextHealth ==
    \/ \E d \in {TickSmall, TickLarge} : Tick(d, MaxNow)
    \/ CallSuccess
    \/ CallFailure
    \/ Reconnect(Harness)

\* The health monitor driven by every sequence of success and failure calls.
SpecHealth == Init /\ [][NextHealth]_vars

\* startTest as one handler thread serves it.
StartOnly(r, ms) ==
    \/ \E c \in Cutoffs : StartBegin(r, c, 0, ms)
    \/ StartTest(r, ms)
    \/ Return(r)

\* Concurrent startTest requests on two handler threads, statement by
\* statement, beside the polling loop and the monitors they start.
NextStart ==
    \/ PollIteration({30}, FALSE)
    \/ \E r \in Reqs : StartOnly(r, Mons)
    \/ \E m \in Mons : MonitorStep(m, {4})

SpecStart == Init /\ [][NextStart]_vars

\* startTest requests beside a polling loop that loses the link: one operation
\* at a time.
NextLost ==
    \/ Alone(Poller) /\ PollIteration({30, 40}, MayFail(MaxLinkInterval))
    \/ Alone(Poller) /\ Reconnect(Poller)
    \/ Alone("r1") /\ StartOnly("r1", {"m1"})
    \/ Alone("m1") /\ MonitorStep("m1", {4})

SpecLost == Init /\ [][NextLost]_vars

\* A cycle run by the executor: every call of run_cycle, the voltages read and
\* the instrument calls that raise (may_fail), and stop() called by another
\* thread at any moment.
CycleRun(may_fail) ==
    \/ \E c \in CycleNames : RunCycle(c)
    \/ NextPhase
    \/ \E ok \in {TRUE, ~may_fail} : RestOff(ok)
    \/ \E ok \in {TRUE, ~may_fail} : RestLoop(ok)
    \/ \E ok \in {TRUE, ~may_fail} : DischargeSetup(ok)
    \/ \E volt_ok \in {TRUE, ~may_fail}, v \in {25, 40}, log_ok \in {TRUE, ~may_fail} :
           DischargeLoop(volt_ok, v, log_ok)
    \/ \E ok \in {TRUE, ~may_fail} : DischargeOff(ok)
    \/ RampCheck
    \/ \E ok \in {TRUE, ~may_fail} : RampSet(ok)
    \/ \E ok \in {TRUE, ~may_fail} : RampLog(ok)
    \/ XReturn
    \/ XHandle

NextCycle ==
    \/ CycleRun(TRUE)
    \/ \E filename \in {"", "out.csv"} : ExportData(filename)
    \/ StopFlag
    \/ StopOff

SpecCycle == Init /\ [][NextCycle]_vars

\* One iteration of update_data's loop that is a communication failure:
\* recvdata() or cmd_readstate() raises, or the response carries a failure
\* marker (and the iteration goes on to its end, lines 287-362).
FailingIteration ==
    \/ PollBegin
    \/ \E ok \in BOOLEAN : PollRecv(ok, MayFail(MaxLinkInterval))
    \/ \E ok \in BOOLEAN : PollRead(ok, 40, TRUE, MayFail(MaxLinkInterval))
    \/ PollSnap
    \/ PollLog

\* The polling thread when every iteration fails, with its forced reconnects.
FailingPoller ==
    \/ FailingIteration
    \/ Reconnect(Poller)

\* The polling loop on a link on which every iteration is a communication
\* failure, with or without a running test; the loop never stops (line 229).
NextFailing ==
    \/ FailingPoller
    \/ \E v \in {0, 1} : PanelSwitch(v)
    \/ Tick(TickLarge, MaxNowLink)

SpecFailing == Init /\ [][NextFailing]_vars /\ WF_vars(FailingPoller)

\* ------------------------------------------------------------------ claims

Interval == connection_health.update_interval
Failures == connection_health.consecutive_failures

\* A step that is a call manage_connection_health(False) by thread t.
FailureCall(t) == pc[t] = "mch_fail" /\ pc'[t] # "mch_fail"

\* A step in which some thread begins a forced reconnect.
ForcedReconnectStarts == \E t \in Threads : pc[t] # "rc_close" /\ pc'[t] = "rc_close"

Range(q) == {q[i] : i \in 1..Len(q)}
Workers == Reqs \cup Mons

\* C1: a stop procedure that found an instrument handle has issued the
\* output-OFF command by the time it ends, whichever final read failed.
C1_StopIssuesOff ==
    \A t \in Workers :
        pc[t] = "si_done" /\ si_handle[t] = "yes" => "off" \in Range(issued[t])

C3_StartTimeIffRunning ==
    (\A t \in Threads : AtRest(t)) => ((start_time # None) <=> running)

\* C4: while the polling loop is inside its critical section (from recvdata
\* to the end of cmd_readstate), no handler or monitor issues an instrument
\* command.
C4_NoCommandDuringPoll ==
    [][ lock = Poller => \A t \in Workers : Len(issued'[t]) <= Len(issued[t]) ]_vars

\* C5: the polling loop's forced reconnect closes and reopens the link only
\* while it holds serial_lock.
C5_ReconnectHoldsLock ==
    \/ pc[Poller] = "rc_close" /\ link = "open"
    \/ pc[Poller] = "init_connect"
    => lock = Poller

\* C6, as stated: the poll interval always lies between its floor (3.0 s) and
\* its ceiling (10.0 s).
C6_IntervalWithinFloorAndCeiling ==
    IntervalFloor <= Interval /\ Interval <= IntervalMax

\* C6, amended: the poll interval never exceeds its ceiling (10.0 s) and never
\* lies below its initial value (2.0 s).
C6_IntervalWithinInitialAndCeiling ==
    IntervalInit <= Interval /\ Interval <= IntervalMax

\* C6 witness: failure calls have driven the interval to its ceiling.
C6_Witness ==
    Interval = IntervalMax /\ Failures > 0 /\ pc[Harness] = "idle"

\* C7, as stated: every failure call raises the poll interval by exactly one
\* step and every success call lowers it by exactly one step.
C7_ExactlyOneStepPerCall ==
    [][ /\ FailureCall(Harness) => Interval' = Interval + IntervalStep
        /\ CallSuccess => Interval' = Interval - IntervalStep ]_vars

\* C7, amended: a failure call raises the poll interval by one step, or leaves
\* it when it is at the ceiling; a success call lowers it by one step, or leaves
\* it when it is at or below 3.0 s; no other step changes it.
C7_AtMostOneStepPerCall ==
    [][ /\ FailureCall(Harness) =>
              \/ Interval' = Interval + IntervalStep
              \/ Interval' = Interval /\ Interval = IntervalMax
        /\ CallSuccess =>
              \/ Interval' = Interval - IntervalStep /\ Interval > IntervalFloor
              \/ Interval' = Interval /\ Interval <= IntervalFloor
        /\ ~FailureCall(Harness) /\ ~CallSuccess => Interval' = Interval ]_vars

\* C7 witness: a success call has lowered the interval from its ceiling.
C7_Witness ==
    /\ Interval = IntervalMax - IntervalStep
    /\ Failures = 0
    /\ connection_health.is_connected
    /\ pc[Harness] = "idle"

\* C8: a forced reconnect begins only in a failure call that leaves at least 5
\* consecutive failures and comes at least the cooldown (30 s) after the last
\* reset time the program recorded and after the previous forced reconnect.
C8_ReconnectOnlyAfterCooldown ==
    [][ ForcedReconnectStarts =>
          /\ \E t \in Threads : FailureCall(t) /\ pc'[t] = "rc_close"
          /\ Failures' >= MAX_CONSECUTIVE_FAILURES
          /\ now - connection_health.last_reset_time >= MIN_RESET_INTERVAL
          /\ prev_start # None => now - prev_start >= MIN_RESET_INTERVAL ]_vars

\* C8 witness: a forced reconnect begins after an earlier one succeeded.
C8_Witness ==
    /\ pc[Harness] = "rc_close"
    /\ connection_health.connection_reset_count >= 1
    /\ now > Epoch + MIN_RESET_INTERVAL

\* The reconciliation C9 speaks of, as found when the iteration has read the
\* device state and is past the synchronisation step.
Reconciled ==
    /\ load_on = 1 => running /\ start_time # None
    /\ load_on = 0 => ~running /\ start_time = None

C10_StopsAtFirstSampleAtCutoff ==
    \A m \in Mons :
        LET v == mon[m].current_voltage
            low == v > ValidFloor /\ v <= mon[m].cutoff
        IN  /\ pc[m] # "m_off" /\ mon[m].why = "cutoff" => low
            /\ pc[m] = "m_check" => ~low

\* C10: the monitor calls the stop procedure exactly at the first valid sample
\* at or below the cutoff, and that stop procedure commands output OFF.
C10_CutoffStopsAndSwitchesOff ==
    /\ C10_StopsAtFirstSampleAtCutoff
    /\ \A m \in Mons :
          pc[m] = "si_done" /\ mon[m].why = "cutoff" /\ si_handle[m] = "yes"
              => "off" \in Range(issued[m])

\* C11: a monitor pass that samples a valid voltage more than 15 s after the
\* last heartbeat (the start of the test, when heartbeat() was never called)
\* does not go on monitoring: it calls the stop procedure, at whose end
\* running is false.
C11_HeartbeatCutout ==
    \A m \in Mons :
        /\ pc[m] = "m_check" /\ mon[m].current_voltage > ValidFloor
               => mon[m].current_time - last_heartbeat <= HEARTBEAT_TIMEOUT
        /\ pc[m] = "si_done" /\ mon[m].why = "heartbeat" => ~running

\* C11 witness: no heartbeat came after the start of the test, the voltage
\* stayed above the cutoff, and the monitor's stop procedure has ended.
C11_Witness ==
    \E m \in Mons :
        /\ pc[m] = "si_done"
        /\ mon[m].why = "heartbeat"
        /\ last_heartbeat <= mon[m].start
        /\ mon[m].current_voltage > mon[m].cutoff
        /\ mon[m].current_time - mon[m].start > HEARTBEAT_TIMEOUT
        /\ ~running

\* The stop procedure up to, and without, its clearing of the running flag.
StoppingStates == {"si_begin", "si_reads", "si_off", "si_verify", "si_clear"}

\* C12: the stop procedure is executed at most once for a test: no two
\* threads (a monitor on one of its triggers, a handler serving stopTest) are
\* inside it for the same running test.
C12_StopAtMostOnce ==
    Cardinality({t \in Workers : pc[t] \in StoppingStates}) <= 1

\* A monitor thread inside its monitoring loop (or in the stop procedure it
\* called from there).
InLoop(m) == pc[m] \notin {"m_off", "m_init"}

\* C13: at most one monitor thread is inside its monitoring loop.
C13_AtMostOneMonitor ==
    Cardinality({m \in Mons : InLoop(m)}) <= 1

\* The instrument commands of a successful startTest, in order.
StartCommands == <<"resetcounters", "setcurrent", "setcutoff", "on">>

\* Handler thread r is serving, or has just served, a startTest that passed
\* its precondition tests.
IsStart(r) == req[r] # NoReq

\* How many instrument commands a startTest at this position has issued.
StartIssued(p) ==
    CASE p = "st_reset" -> 0
      [] p = "st_setcur" -> 1
      [] p = "st_setcut" -> 2
      [] p = "st_on" -> 3
      [] OTHER -> 4

\* C14: startTest issues reset-accumulators, set-current, set-cutoff and
\* output-ON in that order; running is set only after output-ON was commanded
\* and the monitor is started only after that; a failure of one of the first
\* three commands does not keep the later ones from being issued (only a
\* failing output-ON ends the call with an error).
C14_StartOrder ==
    \A r \in Reqs :
        /\ r \in Starting =>
              /\ issued[r] = SubSeq(StartCommands, 1, StartIssued(pc[r]))
              /\ \A m \in Mons : pc[m] = "m_off"
        /\ pc[r] \in {"st_reset", "st_setcur", "st_setcut", "st_on", "st_flags"}
              => ~running
        /\ pc[r] = "r_done" /\ IsStart(r) => issued[r] = StartCommands
        /\ pc[r] = "r_done" /\ IsStart(r) /\ result[r] = "ok" =>
              running /\ \E m \in Mons : pc[m] = "m_init"

\* C14 witness: a startTest has succeeded, its four commands issued in order,
\* running set and the monitor started.
C14_Witness ==
    /\ pc["r1"] = "r_done"
    /\ IsStart("r1")
    /\ result["r1"] = "ok"
    /\ issued["r1"] = StartCommands
    /\ running
    /\ pc["m1"] = "m_init"

\* A step of handler thread r in startTest, from its call up to and including
\* the output-ON command.
StartCommandStep(r) ==
    \/ \E c \in Cutoffs, mt \in MaxTimes : StartBegin(r, c, mt, Mons)
    \/ \E ok \in BOOLEAN : StartSetup(r, ok)
    \/ \E ok \in BOOLEAN : StartOn(r, ok)

\* The session state and the monitor threads are left as they are.
SessionUntouched ==
    /\ UNCHANGED <<running, start_time, data_points, last_heartbeat, mon>>
    /\ \A m \in Mons : pc'[m] = pc[m]

\* C15: a startTest whose output-ON command fails returns an error and has
\* left the session unchanged at every step: running false, start_time
\* unset, the data log not cleared, the heartbeat time not refreshed and no
\* monitor started.
C15_FailedOnLeavesSession ==
    [][ \A r \in Reqs :
          /\ StartCommandStep(r) => SessionUntouched
          /\ (\E ok \in BOOLEAN : StartOn(r, ok)) /\ pc'[r] # "st_flags" =>
                /\ pc'[r] = "r_done"
                /\ result'[r] = "DeviceError"
                /\ ~running' /\ start_time' = None
                /\ \A m \in Mons : pc'[m] = "m_off" ]_vars

\* C15 witness: output-ON has failed after the three configuration commands,
\* and the data log of an earlier session is still there.
C15_Witness ==
    /\ pc["r1"] = "r_done"
    /\ result["r1"] = "DeviceError"
    /\ issued["r1"] = StartCommands
    /\ ~running
    /\ start_time = None
    /\ data_points # <<>>
    /\ pc["m1"] = "m_off"

\* The call of startTest by handler thread r: its precondition tests.
StartCall(r) == \E c \in Cutoffs, mt \in MaxTimes : StartBegin(r, c, mt, Mons)

\* startTest is refused with error e, without an instrument command, a change
\* of the session or a new monitor.
Refused(r, e) ==
    /\ pc'[r] = "r_done"
    /\ result'[r] = e
    /\ issued'[r] = <<>>
    /\ SessionUntouched

\* C16, as stated: startTest called while running is true is refused with
\* AlreadyRunning, and called while no instrument handle exists is refused
\* with NotConnected.
C16_StartRefused ==
    [][ \A r \in Reqs : StartCall(r) =>
          /\ running => Refused(r, "AlreadyRunning")
          /\ ~HandleExists => Refused(r, "NotConnected") ]_vars

\* C16, amended: startTest called while running is true is refused with
\* AlreadyRunning; called while running is false and no instrument handle
\* exists it is refused with NotConnected; otherwise it goes on.
C16_StartRefusedInOrder ==
    [][ \A r \in Reqs : StartCall(r) =>
          /\ running => Refused(r, "AlreadyRunning")
          /\ ~running /\ ~HandleExists => Refused(r, "NotConnected")
          /\ ~running /\ HandleExists => pc'[r] = "st_reset" ]_vars

\* C16 witness: a startTest has been refused while a test was running and its
\* monitor alive.
C16_Witness ==
    /\ pc["r1"] = "r_done"
    /\ result["r1"] = "AlreadyRunning"
    /\ issued["r1"] = <<>>
    /\ running
    /\ pc["m1"] = "m_check"

\* C17: stopTest called while running is false returns success, issues no
\* instrument command and leaves the session, the device and the monitors as
\* they are; so a second stopTest changes nothing after the first.
C17_StopIdempotent ==
    [][ \A r \in Reqs : StopBegin(r) /\ ~running =>
          /\ pc'[r] = "r_done"
          /\ result'[r] = "ok"
          /\ issued'[r] = <<>>
          /\ SessionUntouched
          /\ UNCHANGED <<cur_voltage, deviceVars>> ]_vars

\* C17 witness: a stopTest has returned success without a command, on an open
\* link, after the session whose log is still there was stopped.
C17_Witness ==
    /\ pc["r1"] = "r_done"
    /\ result["r1"] = "ok"
    /\ issued["r1"] = <<>>
    /\ link = "open"
    /\ ~running
    /\ start_time = None
    /\ data_points # <<>>


\* The positions of _execute_discharge after output has been turned on.
DischargeOn == {"x_dis_loop", "x_dis_off"}

\* C18: every step by which the discharge phase ends after output was turned
\* on (duration, cutoff, max-time, abort through stop(), or a failing voltage
\* read) leaves OFF as the last output command issued to the instrument.
C18_DischargeEndsOff ==
    [][(xpc \in DischargeOn /\ xpc' \notin DischargeOn) => (last_output' = "off")]_vars


\* The names of the phases of a cycle, in definition order.
PhaseNames(c) == [k \in 1..Len(test_cycles[c]) |-> test_cycles[c][k].name]

\* run_cycle is executing or has returned, for a cycle that exists.
CycleTaken == xpc \notin {"x_raised", "x_stop_off"} /\ xresult # "ValueError" /\ calls.run > 0

\* C19: run_cycle starts the phases of the named cycle in definition order,
\* each at most once, the phases before the last started one having returned
\* success; it returns success only when every phase has returned success; a
\* failing phase is the last one started, and once run_cycle has returned
\* failure it starts no phase and issues no command.
C19_PhasesInOrder ==
    [][ /\ CycleTaken =>
           /\ xphases = SubSeq(PhaseNames(current_cycle), 1, Len(xphases))
           /\ Len(xphases) \in {xloc.i, xloc.i + 1}
           /\ xresult = "True" => xloc.i = Len(test_cycles[current_cycle])
           /\ xresult = "False" => Len(xphases) = xloc.i + 1
        /\ xissued' # xissued /\ xissued' # <<>> =>
           /\ xresult = "none"
           /\ xphases # <<>>
           /\ current_phase.name = xphases[Len(xphases)]
        /\ xresult = "False" /\ xresult' = "False" => UNCHANGED <<xissued, xphases>> ]_vars

\* C19: run_cycle has returned failure from an aborted first phase that had
\* issued commands, and the second phase was never started.
C19_Witness ==
    /\ xpc = "x_done"
    /\ xresult = "False"
    /\ current_cycle = "pulse"
    /\ xphases = <<"pulse">>
    /\ Len(xissued) = 4
    /\ xissued[4] = Cmd("setonoff", 0)


\* C20: run_cycle with a name that is not among the loaded definitions raises
\* the unknown-cycle error (ValueError) and leaves the executor as it was: the
\* running flag, the data log, the current cycle and phase are unchanged and
\* no command is issued to the instrument.
C20_UnknownCycleRaises ==
    [][ \A c \in CycleNames : (RunCycle(c) /\ ~Known(c)) =>
          /\ xpc' = "x_raised"
          /\ xresult' = "ValueError"
          /\ xissued' = <<>>
          /\ UNCHANGED <<self_running, cycle_data, current_cycle, current_phase,
                         phase_start_time, last_output>> ]_vars

\* C20: an unknown name has just been refused after an earlier cycle was
\* aborted: the log of that cycle and its definition are still there and the
\* running flag is still clear.
C20_Witness ==
    /\ xpc = "x_raised"
    /\ xresult = "ValueError"
    /\ calls.run = 2
    /\ xissued = <<>>
    /\ cycle_data # <<>>
    /\ current_cycle = "capacity"
    /\ ~self_running


\* C21: whenever a phase returns failure to run_cycle (abort through the
\* running flag in rest, discharge or ramp, or an unknown phase type), the
\* most recent output command issued to the instrument is OFF: the output is
\* not left commanded ON.
C21_FailureLeavesOff ==
    [][(xresult # "False" /\ xresult' = "False") => (last_output' # "on")]_vars


\* C22: export_data called while the data log is empty returns failure and
\* writes no file, with an explicit path and with the default file name alike,
\* and leaves the data log unchanged.
C22_EmptyExportFails ==
    [][ \A filename \in {"", "out.csv"} : (ExportData(filename) /\ cycle_data = <<>>) =>
          /\ exported' = "False"
          /\ UNCHANGED <<files, cycle_data>> ]_vars

\* C22: an export has failed on the empty log of a cycle that logged nothing,
\* after an earlier cycle had been exported: the earlier file is all there is.
C22_Witness ==
    /\ exported = "False"
    /\ calls.export = 2
    /\ cycle_data = <<>>
    /\ current_cycle = "faulty"
    /\ Cardinality(DOMAIN files) = 1


\* The data point a step has appended to the log.
Appended == cycle_data'[Len(cycle_data')]

\* C23: the log holds only points of the current run, each carrying the name
\* and the type of the phase executing when it was logged, and export_data
\* writes one line per logged point, in logging order, after the header.
\* A run that starts empties the log; every other change of the log appends
\* one point, of the phase last started; an export of a non-empty log writes
\* a file whose k-th data line has the phase and phase type of the k-th point.
C23_ExportMatchesLog ==
    [][ /\ (calls'.run # calls.run /\ xresult' = "none") => cycle_data' = <<>>
        /\ (cycle_data' # cycle_data /\ calls'.run = calls.run) =>
              /\ Len(cycle_data') = Len(cycle_data) + 1
              /\ SubSeq(cycle_data', 1, Len(cycle_data)) = cycle_data
              /\ xresult = "none"
              /\ xphases # <<>>
              /\ Appended.phase = xphases[Len(xphases)]
              /\ Appended.phase = current_phase.name
              /\ Appended.phase_type = current_phase.type
        /\ \A filename \in {"", "out.csv"} : (ExportData(filename) /\ cycle_data # <<>>) =>
              LET lines == files'[FileName(filename)] IN
              /\ exported' = "True"
              /\ Len(lines) = Len(cycle_data) + 1
              /\ \A k \in 1..Len(cycle_data) :
                    /\ lines[k + 1][2] = cycle_data[k].phase
                    /\ lines[k + 1][3] = cycle_data[k].phase_type ]_vars

\* C23: the capacity cycle has run and its log has been exported: the file
\* has a line of the rest phase followed by a line of the discharge phase.
C23_Witness ==
    /\ exported = "True"
    /\ current_cycle = "capacity"
    /\ xresult = "True"
    /\ LET f == [base |-> "out.csv", stamp |-> None] IN
       /\ f \in DOMAIN files
       /\ Len(files[f]) = 3
       /\ files[f][2][3] = "rest"
       /\ files[f][3][3] = "discharge"
       /\ files[f][3][2] = "drain"


\* The commands the current phase has issued, and those of one kind.
PhaseCommands == SubSeq(xissued, xloc.base + 1, Len(xissued))
OfKind(cmds, kind) == LET Is(c) == c.cmd = kind IN SelectSeq(cmds, Is)

\* C24: a ramp phase that runs through all its steps has issued exactly
\* `steps` set-current commands, the k-th (k = 0..steps-1) with setpoint
\* start_current + k*(end_current-start_current)/steps, none of them with
\* end_current, has commanded output ON exactly once, right after the first
\* setpoint, and has logged one data point per step.
C24_RampSetpoints ==
    [][ (xpc = "x_ramp_loop" /\ xpc' = "x_next") =>
          LET p == current_phase
              sets == OfKind(PhaseCommands, "setcurrent")
          IN  /\ Len(sets) = p.steps
              /\ \A k \in 0..(p.steps - 1) :
                    /\ p.steps * sets[k + 1].arg
                          = p.steps * p.start_current + k * (p.end_current - p.start_current)
                    /\ sets[k + 1].arg # p.end_current
              /\ OfKind(PhaseCommands, "setonoff") = <<Cmd("setonoff", 1)>>
              /\ PhaseCommands[1].cmd = "setcurrent"
              /\ PhaseCommands[2] = Cmd("setonoff", 1)
              /\ Len(PhaseCommands) = p.steps + 1
              /\ Len(cycle_data) - xloc.logbase = p.steps ]_vars

\* C24: the ramp of the pulse cycle has run through after the discharge
\* before it, its last setpoint one step short of end_current.
C24_Witness ==
    /\ xpc = "x_next"
    /\ current_phase = RampPhase
    /\ xloc.i = 2
    /\ Len(xissued) = 4 + RampSteps + 1
    /\ xissued[Len(xissued)].cmd = "setcurrent"
    /\ xissued[Len(xissued)].arg < RampPhase.end_current
    /\ xissued[Len(xissued)].arg > RampPhase.start_current


\* A step of get_status by handler r.
StatusStep(r) == StatusBegin(r) \/ \E ok \in BOOLEAN : StatusRead(r, ok)

\* C25: getStatus never fails its caller and is read-only with respect to the
\* session. Every step of it leaves running, start_time, the snapshot and the
\* data log unchanged, attempts no instrument command but the state read and
\* leaves the output as it was; its response is always a status, whose
\* instrument fields take their defaults when the read raised or there is no
\* handle, and the instrument's values otherwise.
C25_StatusReadOnly ==
    [][ \A r \in Reqs : StatusStep(r) =>
          /\ UNCHANGED <<running, start_time, cur_voltage, data_points, out, link>>
          /\ \A k \in 1..Len(issued'[r]) : issued'[r][k] = "readstate"
          /\ result'[r] \in {"none", "ok"}
          /\ result'[r] = "ok" =>
                /\ status'.limits \in {"device", "default"}
                /\ status'.limits = "default" => status'.load_on = 0
                /\ status'.limits = "device" => (link = "open" /\ status'.load_on = out)
          /\ (StatusRead(r, FALSE) \/ ~HandleExists) =>
                (result'[r] = "ok" /\ status' = [load_on |-> 0, limits |-> "default"]) ]_vars

\* C25: the state read of a getStatus has raised while a test runs with the
\* output on, and the response carries the defaults.
C25_Witness ==
    /\ pc["r1"] = "r_done"
    /\ result["r1"] = "ok"
    /\ issued["r1"] = <<"readstate">>
    /\ status = [load_on |-> 0, limits |-> "default"]
    /\ running
    /\ out = 1


\* C26: a polling iteration whose response carries a communication-failure
\* marker is a failure only: having recorded the failure, it records no
\* success, so the end of the iteration (also while a test runs) leaves the
\* health record, with its consecutive-failure counter, as the failure call
\* left it.
C26_MarkerIsFailureOnly ==
    [][(PollLog /\ has_comm_errors) => UNCHANGED connection_health]_vars


\* C27: if every polling iteration is a communication failure (failure marker
\* or exception), over and over, then the consecutive-failure counter
\* eventually reaches the threshold and a forced reconnect is eventually
\* attempted (the cooldown having elapsed), whether or not a test is running.
C27_FailuresForceReconnect ==
    []<>(pc[Poller] = "mch_fail") =>
        /\ <>(connection_health.consecutive_failures >= MAX_CONSECUTIVE_FAILURES)
        /\ <>(pc[Poller] = "rc_close")


\* C28: in every state in which a health-monitor call or a (re)connect
\* attempt has completed, three or more consecutive failures imply that the
\* connected flag is false; and a success call always leaves the counter at 0
\* with the connected flag true.
C28_DisconnectedAfterThree ==
    /\ [](pc[Harness] = "idle" =>
            (connection_health.consecutive_failures >= DISCONNECT_FAILURES
                => ~connection_health.is_connected))
    /\ [][CallSuccess =>
            /\ connection_health'.consecutive_failures = 0
            /\ connection_health'.is_connected]_vars

\* C28: a forced reconnect has been attempted and has failed: the counter is
\* at the threshold or above and the flag says disconnected.
C28_Witness ==
    /\ pc[Harness] = "idle"
    /\ connection_health.consecutive_failures >= MAX_CONSECUTIVE_FAILURES
    /\ connection_health.last_reset_time > 0
    /\ connection_health.connection_reset_count = 0
    /\ ~connection_health.is_connected


\* C29: the live data log is append-only within a session: every step taken
\* while a session is running (running flag set, start time set) and stays
\* running leaves the logged points as an unchanged prefix of the log and
\* adds at most one point; the log is never emptied in the middle of a
\* running session, a forced reconnect included.
C29_LogAppendOnly ==
    [][ (running /\ start_time # None /\ running') =>
          /\ Len(data_points') \in {Len(data_points), Len(data_points) + 1}
          /\ SubSeq(data_points', 1, Len(data_points)) = data_points ]_vars


\* C30: a test started with a max-time m > 0 is stopped by its monitor at the
\* first sample at which the elapsed time is at least m, whatever the
\* snapshot voltage is (readings at or below the validity floor included):
\* every pass of the monitor's loop over a running test whose time is up
\* calls the stop procedure.
C30_MaxTimeStops ==
    [][ \A m \in Mons :
          (/\ MonCheck(m)
           /\ running
           /\ mon[m].max_time > 0
           /\ now - mon[m].start >= mon[m].max_time) => pc'[m] = "si_begin" ]_vars


\* C31: the termination policy of the discharge phase. A pass of the loop
\* that is not aborted and reads the voltage ends the phase exactly when, the
\* phase having a duration, the elapsed time has reached it (whatever the
\* voltage), and when, the phase having none, the voltage is at or below
\* cutoff_voltage or the elapsed time has reached max_time; a pass that does
\* not end the phase leaves it in its loop (or raises in its logging).
C31_DischargeTermination ==
    [][ \A volt_ok \in BOOLEAN, v \in {25, 40}, log_ok \in BOOLEAN :
          (DischargeLoop(volt_ok, v, log_ok) /\ self_running /\ volt_ok) =>
              LET p == current_phase
                  elapsed == xclock - xloc.start_time
                  ends == IF p.duration # 0
                          THEN elapsed >= p.duration
                          ELSE v <= p.cutoff_voltage \/ elapsed >= p.max_time
              IN  /\ ends <=> xpc' = "x_dis_off"
                  /\ ~ends => xpc' \in {"x_dis_loop", "x_raised"} ]_vars

\* C31: the timed discharge has run to its duration, through passes that
\* read a voltage at the cutoff, and is about to switch the output off.
C31_Witness ==
    /\ xpc = "x_dis_off"
    /\ current_phase = TimedDischarge
    /\ xclock - xloc.start_time = PulseDuration
    /\ self_running
    /\ last_output = "on"


\* C32: when run_cycle returns, completed or aborted, the last output command
\* issued is OFF: the load is not left commanded ON after a scripted run has
\* ended, a cycle whose final phase is a ramp included.
C32_ReturnLeavesOff ==
    [][(xresult = "none" /\ xresult' \in {"True", "False"}) => (last_output' # "on")]_vars


\* run_cycle has returned True or False and has not been called again.
Returned == xpc \in {"x_done", "x_idle"} /\ xresult \in {"True", "False"}

\* C33: the running flag is true only while run_cycle is executing: once
\* run_cycle has returned, completed or aborted, the flag is false.
C33_RunningOnlyDuringRun == Returned => ~self_running


\* C34: whenever the running flag is true and no startTest is on its way to
\* starting the monitor, a test monitor is alive for the session, also when
\* the session began in the polling loop's reconciliation or at device
\* (re)initialisation.
C34_RunningHasMonitor ==
    (running /\ Starting = {}) => \E m \in Mons : pc[m] # "m_off"

====
